---------------------------- MODULE Spec2Model ----------------------------
(***************************************************************************)
(* Model of package iso8601 (src/iso8601/date.go): the ISO 8601 date       *)
(* parser ParseDate / parseDate, the four date representations Date,       *)
(* OrdinalDate, WeekDate and QuarterDate with their Validate, IsValid,     *)
(* Date and String methods, and the calendar arithmetic they rest on.      *)
(*                                                                         *)
(* A byte is a number in 0..255, a []byte or string a sequence of bytes.   *)
(* Go indexes from 0, TLA+ sequences from 1: At(b, i) is Go's b[i].        *)
(***************************************************************************)
EXTENDS Integers, Sequences, FiniteSets, TLC

VARIABLES op, b, recv, args, src, pc, inner, ret,
          daysInMonthList, daysInQuarterList,  \* the package-level tables
          first,                               \* the first call made and what it returned
          reads                                \* the positions of its input parseDate read

vars == <<op, b, recv, args, src, pc, inner, ret, daysInMonthList, daysInQuarterList, first,
          reads>>

-----------------------------------------------------------------------------
(* Bytes and strings *)

ChPlus  == 43  \* '+'
ChMinus == 45  \* '-'
Ch0     == 48  \* '0'
ChQ     == 81  \* 'Q'
ChW     == 87  \* 'W'

At(s, i) == s[i + 1]

\* Go's s[i:] and s[:j]
SliceFrom(s, i) == SubSeq(s, i + 1, Len(s))
SliceTo(s, j) == SubSeq(s, 1, j)

\* Go's integer division and remainder truncate towards zero
GoDiv(x, y) == IF x >= 0 THEN x \div y ELSE -((-x) \div y)
GoMod(x, y) == x - y * GoDiv(x, y)

RECURSIVE Pow10(_)
Pow10(k) == IF k <= 0 THEN 1 ELSE 10 * Pow10(k - 1)

\* strconv.Itoa / fmt's %d of a non-negative number: no padding
RECURSIVE ItoaNat(_)
ItoaNat(v) == IF v < 10 THEN <<Ch0 + v>> ELSE ItoaNat(v \div 10) \o <<Ch0 + (v % 10)>>

Itoa(v) == IF v < 0 THEN <<ChMinus>> \o ItoaNat(-v) ELSE ItoaNat(v)

RECURSIVE Zeros(_)
Zeros(k) == IF k <= 0 THEN <<>> ELSE <<Ch0>> \o Zeros(k - 1)

\* fmt's %0wd: the sign first, then zeros up to a total width of w
FmtPad(v, w) ==
    IF v < 0
    THEN <<ChMinus>> \o Zeros(w - 1 - Len(ItoaNat(-v))) \o ItoaNat(-v)
    ELSE Zeros(w - Len(ItoaNat(v))) \o ItoaNat(v)

-----------------------------------------------------------------------------
(* countDigits, parseNumber, humanizeDigits *)

\* mutant of countDigits: the byte difference compared without wrapping
RECURSIVE countDigitsSignedFrom(_, _, _)
countDigitsSignedFrom(s, start, i) ==
    IF i < Len(s) /\ (At(s, i) - Ch0) <= 9
    THEN countDigitsSignedFrom(s, start, i + 1)
    ELSE i - start

countDigitsSigned(s, i) == countDigitsSignedFrom(s, i, i)

RECURSIVE countDigitsFrom(_, _, _)
countDigitsFrom(s, start, i) ==
    IF i < Len(s) /\ ((At(s, i) - Ch0) % 256) <= 9
    THEN countDigitsFrom(s, start, i + 1)
    ELSE i - start

countDigits(s, i) == countDigitsFrom(s, i, i)

\* mutant of parseNumber: the power of ten off by one
RECURSIVE parseNumberShiftedLoop(_, _, _, _)
parseNumberShiftedLoop(s, start, i, v) ==
    IF i > 0
    THEN parseNumberShiftedLoop(s, start + 1, i - 1,
                                v + ((At(s, start) - Ch0) % 256) * Pow10(i))
    ELSE v

parseNumberShifted(s, start, width) ==
    IF Len(s) <= start THEN 0 ELSE parseNumberShiftedLoop(s, start, width, 0)

RECURSIVE parseNumberLoop(_, _, _, _)
parseNumberLoop(s, start, i, v) ==
    IF i > 0
    THEN parseNumberLoop(s, start + 1, i - 1,
                         v + ((At(s, start) - Ch0) % 256) * Pow10(i - 1))
    ELSE v

parseNumber(s, start, width) ==
    IF Len(s) <= start THEN 0 ELSE parseNumberLoop(s, start, width, 0)

StrDigit  == <<45, 100, 105, 103, 105, 116>>       \* "-digit"
StrDigits == <<45, 100, 105, 103, 105, 116, 115>>  \* "-digits"

\* mutant of humanizeDigits: the plural from one digit on
humanizeDigitsPluralOne(n) ==
    IF n < 1 THEN Itoa(n) \o StrDigit ELSE Itoa(n) \o StrDigits

humanizeDigits(n) ==
    IF n <= 1 THEN Itoa(n) \o StrDigit ELSE Itoa(n) \o StrDigits

-----------------------------------------------------------------------------
(* Calendar arithmetic *)

\* mutant of isLeapYear: the Julian rule
isLeapYearJulian(y) == GoMod(y, 4) = 0

isLeapYear(y) == GoMod(y, 4) = 0 /\ (GoMod(y, 100) # 0 \/ GoMod(y, 400) = 0)

daysInYear(y) == IF isLeapYear(y) THEN 366 ELSE 365

\* Go arrays are indexed from 0: daysInQuarterList[q] is element q + 1 here
daysInQuarterListInit == <<0, 90, 91, 92, 92>>

daysInQuarter(y, q) ==
    IF q = 1 /\ isLeapYear(y) THEN 91 ELSE daysInQuarterList[q + 1]

daysInMonthListInit == <<0, 31, 28, 31, 30, 31, 30, 31, 31, 30, 31, 30, 31>>

daysInMonth(y, m) ==
    IF m = 2 /\ isLeapYear(y) THEN 29 ELSE daysInMonthList[m + 1]

weeksInYearNorm(year) ==
    IF year < 1 THEN year + 400 * (1 - GoDiv(year, 400)) ELSE year

\* mutant of weeksInYear: a Wednesday start counted in common years too
weeksInYearAnyWednesday(year) ==
    LET yr == weeksInYearNorm(year)
        y  == yr - 1
        d  == GoMod(y + GoDiv(y, 4) - GoDiv(y, 100) + GoDiv(y, 400), 7)
    IN IF d = 3 \/ d = 2 THEN 53 ELSE 52

weeksInYear(year) ==
    LET yr == weeksInYearNorm(year)
        y  == yr - 1
        d  == GoMod(y + GoDiv(y, 4) - GoDiv(y, 100) + GoDiv(y, 400), 7)
    IN IF d = 3 \/ (d = 2 /\ isLeapYear(yr)) THEN 53 ELSE 52

-----------------------------------------------------------------------------
(* weeksInYear on the 64-bit int of Go. A value is a sign and a magnitude  *)
(* of four limbs in base 1000000, lowest limb first; every sum, difference *)
(* and product wraps modulo 2^64 as the machine's does                     *)

MagZero == <<0, 0, 0, 0>>

RECURSIVE MagCmpFrom(_, _, _)
MagCmpFrom(a, c, i) ==
    IF i < 1 THEN 0
    ELSE IF a[i] > c[i] THEN 1
    ELSE IF a[i] < c[i] THEN 0 - 1
    ELSE MagCmpFrom(a, c, i - 1)

MagCmp(a, c) == MagCmpFrom(a, c, 4)

RECURSIVE MagAddFrom(_, _, _, _)
MagAddFrom(a, c, i, carry) ==
    IF i > 4 THEN <<>>
    ELSE LET t == a[i] + c[i] + carry
         IN <<t % 1000000>> \o MagAddFrom(a, c, i + 1, t \div 1000000)

MagAdd(a, c) == MagAddFrom(a, c, 1, 0)

\* a - c for a >= c
RECURSIVE MagSubFrom(_, _, _, _)
MagSubFrom(a, c, i, borrow) ==
    IF i > 4 THEN <<>>
    ELSE LET t == a[i] - c[i] - borrow
         IN IF t < 0 THEN <<t + 1000000>> \o MagSubFrom(a, c, i + 1, 1)
                     ELSE <<t>> \o MagSubFrom(a, c, i + 1, 0)

MagSub(a, c) == MagSubFrom(a, c, 1, 0)

RECURSIVE MagMulFrom(_, _, _, _)
MagMulFrom(a, k, i, carry) ==
    IF i > 4 THEN <<>>
    ELSE LET t == a[i] * k + carry
         IN <<t % 1000000>> \o MagMulFrom(a, k, i + 1, t \div 1000000)

MagMul(a, k) == MagMulFrom(a, k, 1, 0)

\* long division by a small k, from the highest limb down
RECURSIVE MagDivFrom(_, _, _, _)
MagDivFrom(a, k, i, r) ==
    IF i < 1 THEN <<>>
    ELSE LET t == r * 1000000 + a[i]
         IN MagDivFrom(a, k, i - 1, t % k) \o <<t \div k>>

MagDiv(a, k) == MagDivFrom(a, k, 4, 0)

RECURSIVE MagModFrom(_, _, _, _)
MagModFrom(a, k, i, r) ==
    IF i < 1 THEN r ELSE MagModFrom(a, k, i - 1, (r * 1000000 + a[i]) % k)

MagMod(a, k) == MagModFrom(a, k, 4, 0)

Int64(neg, mag) == [neg |-> neg /\ mag # MagZero, mag |-> mag]

\* a small integer as a 64-bit value
Int64Of(n) ==
    LET m == IF n < 0 THEN 0 - n ELSE n
    IN Int64(n < 0, <<m % 1000000, m \div 1000000, 0, 0>>)

Int64Less(x, y) ==
    IF x.neg # y.neg THEN x.neg
    ELSE IF x.neg THEN MagCmp(x.mag, y.mag) = 1
    ELSE MagCmp(x.mag, y.mag) = 0 - 1

\* the exact sum, before it wraps
Int64Sum(x, y) ==
    IF x.neg = y.neg THEN Int64(x.neg, MagAdd(x.mag, y.mag))
    ELSE IF MagCmp(x.mag, y.mag) >= 0 THEN Int64(x.neg, MagSub(x.mag, y.mag))
    ELSE Int64(y.neg, MagSub(y.mag, x.mag))

Int64Neg(x) == Int64(~x.neg, x.mag)

MaxInt64 == Int64(FALSE, <<775807, 36854, 223372, 9>>)  \* 2^63 - 1
MinInt64 == Int64(TRUE, <<775808, 36854, 223372, 9>>)   \* -2^63
TwoTo64  == Int64(FALSE, <<551616, 73709, 446744, 18>>) \* 2^64

\* two's complement wrap of an exact result of magnitude below 2^64 + 2^63
Wrap64(x) ==
    IF Int64Less(MaxInt64, x) THEN Int64Sum(x, Int64Neg(TwoTo64))
    ELSE IF Int64Less(x, MinInt64) THEN Int64Sum(x, TwoTo64)
    ELSE x

Int64Add(x, y) == Wrap64(Int64Sum(x, y))
Int64Sub(x, y) == Wrap64(Int64Sum(x, Int64Neg(y)))
Int64Mul(x, k) == Wrap64(Int64(x.neg, MagMul(x.mag, k)))
\* Go's / and % by a small positive constant: truncation toward zero
Int64Div(x, k) == Int64(x.neg, MagDiv(x.mag, k))
Int64Mod(x, k) == IF x.neg THEN 0 - MagMod(x.mag, k) ELSE MagMod(x.mag, k)

isLeapYearInt64(y) ==
    Int64Mod(y, 4) = 0 /\ (Int64Mod(y, 100) # 0 \/ Int64Mod(y, 400) = 0)

\* mutant of the normalization: whole cycles added without the extra one
weeksInYearNormInt64NoShift(year) ==
    IF Int64Less(year, Int64Of(1))
    THEN Int64Add(year, Int64Mul(Int64Neg(Int64Div(year, 400)), 400))
    ELSE year

weeksInYearNormInt64(year) ==
    IF Int64Less(year, Int64Of(1))
    THEN Int64Add(year, Int64Mul(Int64Sub(Int64Of(1), Int64Div(year, 400)), 400))
    ELSE year

weeksInYearInt64(year) ==
    LET yr == weeksInYearNormInt64(year)
        y  == Int64Sub(yr, Int64Of(1))
        d  == Int64Mod(Int64Add(Int64Sub(Int64Add(y, Int64Div(y, 4)), Int64Div(y, 100)),
                                Int64Div(y, 400)), 7)
    IN IF d = 3 \/ (d = 2 /\ isLeapYearInt64(yr)) THEN 53 ELSE 52


-----------------------------------------------------------------------------
(* Values: DateLike representations and errors *)

NilDate == [type |-> "nil"]
NilErr  == [kind |-> "nil"]

Date(y, m, d)        == [type |-> "Date", Year |-> y, Month |-> m, Day |-> d]
OrdinalDate(y, d)    == [type |-> "OrdinalDate", Year |-> y, Day |-> d]
WeekDate(y, w, d)    == [type |-> "WeekDate", Year |-> y, Week |-> w, Day |-> d]
QuarterDate(y, q, d) == [type |-> "QuarterDate", Year |-> y, Quarter |-> q, Day |-> d]

DateLikeRangeError(element, value, year, min, max) ==
    [kind |-> "DateLikeRangeError", Element |-> element, Value |-> value,
     Year |-> year, Min |-> min, Max |-> max]

UnexpectedTokenError(value, token, afterToken, expected) ==
    [kind |-> "UnexpectedTokenError", Value |-> value, Token |-> token,
     AfterToken |-> afterToken, Expected |-> expected]

MinYear == 0
MaxYear == 9999

YearError(y) == DateLikeRangeError("year", y, y, MinYear, MaxYear)

DateValidate(d) ==
    IF d.Year < MinYear \/ d.Year > MaxYear THEN YearError(d.Year)
    ELSE IF d.Month < 1 \/ d.Month > 12
         THEN DateLikeRangeError("month", d.Month, d.Year, 1, 12)
    ELSE IF d.Day < 1 \/ d.Day > daysInMonth(d.Year, d.Month)
         THEN DateLikeRangeError("day of month", d.Day, d.Year, 1,
                                 daysInMonth(d.Year, d.Month))
    ELSE NilErr

QuarterDateValidate(q) ==
    IF q.Year < MinYear \/ q.Year > MaxYear THEN YearError(q.Year)
    ELSE IF q.Quarter < 1 \/ q.Quarter > 4
         THEN DateLikeRangeError("quarter", q.Quarter, q.Year, 1, 4)
    ELSE IF q.Day < 1 \/ q.Day > daysInQuarter(q.Year, q.Quarter)
         THEN DateLikeRangeError("day of quarter", q.Day, q.Year, 1,
                                 daysInQuarter(q.Year, q.Quarter))
    ELSE NilErr

\* mutant of WeekDateValidate: the week checked before the day of the week
WeekDateValidateWeekFirst(w) ==
    IF w.Year < MinYear \/ w.Year > MaxYear THEN YearError(w.Year)
    ELSE IF w.Week < 1 \/ w.Week > weeksInYear(w.Year)
         THEN DateLikeRangeError("week", w.Week, w.Year, 1, weeksInYear(w.Year))
    ELSE IF w.Day < 1 \/ w.Day > 7
         THEN DateLikeRangeError("day of week", w.Day, w.Year, 1, 7)
    ELSE NilErr

WeekDateValidate(w) ==
    IF w.Year < MinYear \/ w.Year > MaxYear THEN YearError(w.Year)
    ELSE IF w.Day < 1 \/ w.Day > 7
         THEN DateLikeRangeError("day of week", w.Day, w.Year, 1, 7)
    ELSE IF w.Week < 1 \/ w.Week > weeksInYear(w.Year)
         THEN DateLikeRangeError("week", w.Week, w.Year, 1, weeksInYear(w.Year))
    ELSE NilErr

\* mutant of OrdinalDateValidate: day 0 let through
OrdinalDateValidateZeroDay(o) ==
    IF o.Year < MinYear \/ o.Year > MaxYear THEN YearError(o.Year)
    ELSE IF o.Day < 0 \/ o.Day > daysInYear(o.Year)
         THEN DateLikeRangeError("day of year", o.Day, o.Year, 1, daysInYear(o.Year))
    ELSE NilErr

OrdinalDateValidate(o) ==
    IF o.Year < MinYear \/ o.Year > MaxYear THEN YearError(o.Year)
    ELSE IF o.Day < 1 \/ o.Day > daysInYear(o.Year)
         THEN DateLikeRangeError("day of year", o.Day, o.Year, 1, daysInYear(o.Year))
    ELSE NilErr

\* DateLike.Validate: dispatch on the dynamic type
Validate(v) ==
    CASE v.type = "Date"        -> DateValidate(v)
      [] v.type = "OrdinalDate" -> OrdinalDateValidate(v)
      [] v.type = "WeekDate"    -> WeekDateValidate(v)
      [] v.type = "QuarterDate" -> QuarterDateValidate(v)

IsValid(v) == Validate(v) = NilErr

-----------------------------------------------------------------------------
(* time.Time at midnight UTC, as the number of days since 0000-01-01 of    *)
(* the proleptic Gregorian calendar (a Saturday)                           *)

StdLeap(y) == y % 4 = 0 /\ (y % 100 # 0 \/ y % 400 = 0)

StdMonthDays(y, m) ==
    IF m = 2 THEN (IF StdLeap(y) THEN 29 ELSE 28)
    ELSE IF m \in {4, 6, 9, 11} THEN 30 ELSE 31

RECURSIVE StdDaysBeforeMonth(_, _)
StdDaysBeforeMonth(y, m) ==
    IF m <= 1 THEN 0 ELSE StdDaysBeforeMonth(y, m - 1) + StdMonthDays(y, m - 1)

StdDaysBeforeYear(y) ==
    365 * y + ((y + 3) \div 4) - ((y + 99) \div 100) + ((y + 399) \div 400)

\* time.Date(y, m, d, 0, 0, 0, 0, time.UTC), m in 1..12, any d
TimeDate(y, m, d) == StdDaysBeforeYear(y) + StdDaysBeforeMonth(y, m) + d - 1

\* t.AddDate(0, 0, days)
AddDays(t, days) == t + days

\* t.Weekday(): Sunday = 0 .. Saturday = 6
Weekday(t) == (t + 6) % 7
Thursday == 4

TimeYear(t) ==
    LET est == (t * 400) \div 146097
    IN CHOOSE y \in (est - 1)..(est + 1) :
           StdDaysBeforeYear(y) <= t /\ t < StdDaysBeforeYear(y + 1)

TimeMonth(t) ==
    LET y    == TimeYear(t)
        yday == t - StdDaysBeforeYear(y)
    IN CHOOSE m \in 1..12 :
           StdDaysBeforeMonth(y, m) <= yday /\ yday < StdDaysBeforeMonth(y, m + 1)

TimeDay(t) ==
    LET y == TimeYear(t)
    IN t - StdDaysBeforeYear(y) - StdDaysBeforeMonth(y, TimeMonth(t)) + 1

-----------------------------------------------------------------------------
(* Conversions to the calendar date, and String *)

\* the outcome of a call that ends in a run-time panic (index out of range)
Panic == [type |-> "panic"]

DateDate(d) == d

InRange(list, i) == 0 <= i /\ i < Len(list)

RECURSIVE QuarterDateYday(_, _, _)
QuarterDateYday(q, i, yday) ==
    IF i < q.Quarter
    THEN QuarterDateYday(q, i + 1, yday + daysInQuarter(q.Year, i))
    ELSE yday

\* mutant of QuarterDate.Date: the day of the year added without the - 1
QuarterDateDateNoOffset(q) ==
    IF \E i \in 1..(q.Quarter - 1) : ~InRange(daysInQuarterList, i)
    THEN Panic
    ELSE LET yday == QuarterDateYday(q, 1, q.Day)
             t    == AddDays(TimeDate(q.Year, 1, 1), yday)
         IN Date(TimeYear(t), TimeMonth(t), TimeDay(t))

QuarterDateDate(q) ==
    IF \E i \in 1..(q.Quarter - 1) : ~InRange(daysInQuarterList, i)
    THEN Panic
    ELSE LET yday == QuarterDateYday(q, 1, q.Day)
             t    == AddDays(TimeDate(q.Year, 1, 1), yday - 1)
         IN Date(TimeYear(t), TimeMonth(t), TimeDay(t))

RECURSIVE FirstThursday(_)
FirstThursday(t) ==
    IF Weekday(t) # Thursday THEN FirstThursday(AddDays(t, 1)) ELSE t

\* mutant of WeekDate.Date: the week taken to start three days before its
\* Thursday plus one, on Sunday
WeekDateDateSundayStart(w) ==
    LET thursday == FirstThursday(TimeDate(w.Year, 1, 1))
        monday   == AddDays(thursday, -4)
        t        == AddDays(monday, (w.Week - 1) * 7 + w.Day - 1)
    IN Date(TimeYear(t), TimeMonth(t), TimeDay(t))

WeekDateDate(w) ==
    LET thursday == FirstThursday(TimeDate(w.Year, 1, 1))
        monday   == AddDays(thursday, -3)
        t        == AddDays(monday, (w.Week - 1) * 7 + w.Day - 1)
    IN Date(TimeYear(t), TimeMonth(t), TimeDay(t))

\* mutant of OrdinalDate.Date: days counted from day 0 of January
OrdinalDateDateDayZero(o) ==
    LET t == AddDays(TimeDate(o.Year, 1, 0), o.Day - 1)
    IN Date(o.Year, TimeMonth(t), TimeDay(t))

\* mutant of OrdinalDate.Date: the day of the year added without the - 1
OrdinalDateDateNoOffset(o) ==
    LET t == AddDays(TimeDate(o.Year, 1, 1), o.Day)
    IN Date(o.Year, TimeMonth(t), TimeDay(t))

OrdinalDateDate(o) ==
    LET t == AddDays(TimeDate(o.Year, 1, 1), o.Day - 1)
    IN Date(o.Year, TimeMonth(t), TimeDay(t))

\* DateLike.Date: dispatch on the dynamic type
ToDate(v) ==
    CASE v.type = "Date"        -> DateDate(v)
      [] v.type = "OrdinalDate" -> OrdinalDateDate(v)
      [] v.type = "WeekDate"    -> WeekDateDate(v)
      [] v.type = "QuarterDate" -> QuarterDateDate(v)

DateString(d) ==
    FmtPad(d.Year, 4) \o <<ChMinus>> \o FmtPad(d.Month, 2) \o <<ChMinus>> \o FmtPad(d.Day, 2)

QuarterDateString(q) ==
    FmtPad(q.Year, 4) \o <<ChMinus, ChQ>> \o Itoa(q.Quarter) \o <<ChMinus>> \o FmtPad(q.Day, 2)

\* mutant of WeekDate.String: the week printed without padding
WeekDateStringUnpadded(w) ==
    FmtPad(w.Year, 4) \o <<ChMinus, ChW>> \o Itoa(w.Week) \o <<ChMinus>> \o Itoa(w.Day)

WeekDateString(w) ==
    FmtPad(w.Year, 4) \o <<ChMinus, ChW>> \o FmtPad(w.Week, 2) \o <<ChMinus>> \o Itoa(w.Day)

OrdinalDateString(o) ==
    FmtPad(o.Year, 4) \o <<ChMinus>> \o FmtPad(o.Day, 3)

\* fmt.Stringer.String: dispatch on the dynamic type
String(v) ==
    CASE v.type = "Date"        -> DateString(v)
      [] v.type = "OrdinalDate" -> OrdinalDateString(v)
      [] v.type = "WeekDate"    -> WeekDateString(v)
      [] v.type = "QuarterDate" -> QuarterDateString(v)

-----------------------------------------------------------------------------
(* The parser *)

\* the (int, DateLike, error) triple parseDate returns
Result(n, d, err) == [n |-> n, d |-> d, err |-> err]

Built(v) == IF Validate(v) # NilErr THEN <<NilDate, Validate(v)>> ELSE <<v, NilErr>>

ydISODate(y, d)     == Built(OrdinalDate(y, d))
ymdISODate(y, m, d) == Built(Date(y, m, d))
yqdISODate(y, q, d) == Built(QuarterDate(y, q, d))

\* mutant of ywdISODate: the value returned without validation
ywdISODateUnchecked(y, w, d) == <<WeekDate(y, w, d), NilErr>>

ywdISODate(y, w, d) == Built(WeekDate(y, w, d))

Return(n, dt) == Result(n, dt[1], dt[2])

Fail(s, token, afterToken, expected) ==
    Result(0, NilDate, UnexpectedTokenError(s, token, afterToken, expected))

StrDateFormat == <<100, 97, 116, 101, 32, 102, 111, 114, 109, 97, 116>> \* "date format"
Str8OrMore    == <<56, 32, 111, 114, 32, 109, 111, 114, 101, 32, 99, 104, 97, 114, 97, 99, 116, 101, 114, 115>> \* "8 or more characters"
StrMinusQW    == <<45, 32, 111, 114, 32, 81, 32, 111, 114, 32, 87>> \* "- or Q or W"
StrLike       == <<108, 105, 107, 101, 32, 45, 81, 52, 45, 56, 53, 32, 111, 114, 32, 45, 87, 53, 50, 45, 49, 32, 111, 114, 32, 45, 51, 53, 57>> \* "like -Q4-85 or -W52-1 or -359"

\* case 4 of the outer switch, after '-' and a digit run of length 0
parseDateExtQW(s, signed, y) ==
    LET n == countDigits(s, 6)
    IN IF Len(s) >= 10 /\ At(s, 5) = ChQ THEN
           LET x == parseNumber(s, 6, 1)
               c == countDigits(s, 8)
           IN IF n # 1 THEN Fail(s, humanizeDigits(n), <<ChQ>>, humanizeDigits(1))
              ELSE IF At(s, 7) # ChMinus
                   THEN Fail(s, <<At(s, 7)>>, <<ChQ>> \o Itoa(x), <<ChMinus>>)
              ELSE IF c # 2
                   THEN Fail(s, humanizeDigits(c), <<ChQ>> \o Itoa(x) \o <<ChMinus>>,
                             humanizeDigits(2))
              ELSE Return(10 + signed, yqdISODate(y, x, parseNumber(s, 8, 2)))
       ELSE IF Len(s) >= 10 /\ At(s, 5) = ChW THEN
           LET x == parseNumber(s, 6, 2)
               c == countDigits(s, 9)
           IN IF n # 2 THEN Fail(s, humanizeDigits(n), <<ChW>>, humanizeDigits(2))
              ELSE IF At(s, 8) # ChMinus
                   THEN Fail(s, <<At(s, 8)>>, <<ChW>> \o FmtPad(x, 2), <<ChMinus>>)
              ELSE IF c # 1
                   THEN Fail(s, humanizeDigits(c), <<ChW>> \o FmtPad(x, 2) \o <<ChMinus>>,
                             humanizeDigits(1))
              ELSE Return(10 + signed, ywdISODate(y, x, parseNumber(s, 9, 1)))
       ELSE \* falls out of both switches to the final return
           Fail(s, humanizeDigits(IF Len(s) >= 10 THEN n ELSE 0), <<>>, StrDateFormat)

\* case 4 of the outer switch, after '-'
parseDateExt(s, signed, y) ==
    LET n == countDigits(s, 5)
    IN CASE n = 0 -> parseDateExtQW(s, signed, y)
         [] n = 2 ->
              LET x == parseNumber(s, 5, 2)
                  c == countDigits(s, 8)
              IN IF At(s, 7) # ChMinus
                 THEN Fail(s, <<At(s, 7)>>, <<ChMinus>> \o FmtPad(x, 2), <<ChMinus>>)
                 ELSE IF c # 2
                      THEN Fail(s, humanizeDigits(c),
                                <<ChMinus>> \o FmtPad(x, 2) \o <<ChMinus>>, humanizeDigits(2))
                 ELSE Return(10 + signed, ymdISODate(y, x, parseNumber(s, 8, 2)))
         [] n = 3 -> Return(8 + signed, ydISODate(y, parseNumber(s, 5, 3)))
         [] OTHER -> Fail(s, humanizeDigits(n), Itoa(y) \o <<ChMinus>>, StrLike)

\* mutant of the four-digit-year case: the length check off by one
parseDateYearShort(s, signed) ==
    LET y == parseNumber(s, 0, 4)
        n == countDigits(s, 5)
    IN IF Len(s) <= 8 THEN Fail(s, SliceFrom(s, 4), Itoa(y), Str8OrMore)
       ELSE CASE At(s, 4) = ChMinus -> parseDateExt(s, signed, y)
              [] At(s, 4) = ChQ ->
                   IF n # 3 THEN Fail(s, humanizeDigits(n), <<ChQ>>, humanizeDigits(3))
                   ELSE Return(8 + signed,
                               yqdISODate(y, parseNumber(s, 5, 1), parseNumber(s, 6, 2)))
              [] At(s, 4) = ChW ->
                   IF n # 3 THEN Fail(s, humanizeDigits(n), <<ChW>>, humanizeDigits(3))
                   ELSE Return(8 + signed,
                               ywdISODate(y, parseNumber(s, 5, 2), parseNumber(s, 7, 1)))
              [] OTHER -> Fail(s, SliceFrom(s, 4), Itoa(y), StrMinusQW)

\* case 4 of the outer switch: a four-digit year
parseDateYear(s, signed) ==
    LET y == parseNumber(s, 0, 4)
        n == countDigits(s, 5)
    IN IF Len(s) < 8 THEN Fail(s, SliceFrom(s, 4), Itoa(y), Str8OrMore)
       ELSE CASE At(s, 4) = ChMinus -> parseDateExt(s, signed, y)
              [] At(s, 4) = ChQ ->
                   IF n # 3 THEN Fail(s, humanizeDigits(n), <<ChQ>>, humanizeDigits(3))
                   ELSE Return(8 + signed,
                               yqdISODate(y, parseNumber(s, 5, 1), parseNumber(s, 6, 2)))
              [] At(s, 4) = ChW ->
                   IF n # 3 THEN Fail(s, humanizeDigits(n), <<ChW>>, humanizeDigits(3))
                   ELSE Return(8 + signed,
                               ywdISODate(y, parseNumber(s, 5, 2), parseNumber(s, 7, 1)))
              [] OTHER -> Fail(s, SliceFrom(s, 4), Itoa(y), StrMinusQW)

\* the leading '+' is dropped and counted
Signed(s) == IF Len(s) > 0 /\ At(s, 0) = ChPlus THEN 1 ELSE 0

parseDateBody(s, signed) ==
    LET n == countDigits(s, 0)
    IN CASE n = 4 -> parseDateYear(s, signed)
         [] n = 7 -> Return(7 + signed,
                            ydISODate(parseNumber(s, 0, 4), parseNumber(s, 4, 3)))
         [] n = 8 -> Return(8 + signed,
                            ymdISODate(parseNumber(s, 0, 4), parseNumber(s, 4, 2),
                                       parseNumber(s, 6, 2)))
         [] OTHER -> Fail(s, humanizeDigits(n), <<>>, StrDateFormat)

\* mutant of parseDate: the leading '+' dropped but not counted
parseDateSignUncounted(s) == parseDateBody(SliceFrom(s, Signed(s)), 0)

parseDate(s) == parseDateBody(SliceFrom(s, Signed(s)), Signed(s))

-----------------------------------------------------------------------------
(* What parseDate reads of its input: the positions it indexes (b[i]), the  *)
(* starts of the slices it takes (b[k:]), its parseNumber calls, and the    *)
(* digit runs countDigits has measured, along the path the input takes      *)

Reads(index, from, numbers, runs) ==
    [index |-> index, from |-> from, numbers |-> numbers, runs |-> runs, sign |-> {}]

NoReads == Reads({}, {}, {}, {})

Both(r, t) ==
    [index |-> r.index \cup t.index, from |-> r.from \cup t.from,
     numbers |-> r.numbers \cup t.numbers, runs |-> r.runs \cup t.runs,
     sign |-> r.sign \cup t.sign]

\* the byte the program gets at b[i]; -1 stands for the run-time panic
Read(s, i) == IF 0 <= i /\ i < Len(s) THEN At(s, i) ELSE 0 - 1

\* mutant of the extended Q/W reads: b[5] looked at whatever the length
parseDateExtQWReadsUnguarded(s) ==
    LET n == countDigits(s, 6)
        c8 == countDigits(s, 8)
        c9 == countDigits(s, 9)
        seen == Reads({5}, {}, {}, {<<6, n>>})
    IN IF Read(s, 5) = ChQ THEN
           IF n # 1 THEN seen
           ELSE IF Read(s, 7) # ChMinus THEN Both(seen, Reads({7}, {}, {<<6, 1>>}, {}))
           ELSE IF c8 # 2 THEN Both(seen, Reads({7}, {}, {<<6, 1>>}, {<<8, c8>>}))
           ELSE Both(seen, Reads({7}, {}, {<<6, 1>>, <<8, 2>>}, {<<8, c8>>}))
       ELSE IF Read(s, 5) = ChW THEN
           IF n # 2 THEN seen
           ELSE IF Read(s, 8) # ChMinus THEN Both(seen, Reads({8}, {}, {<<6, 2>>}, {}))
           ELSE IF c9 # 1 THEN Both(seen, Reads({8}, {}, {<<6, 2>>}, {<<9, c9>>}))
           ELSE Both(seen, Reads({8}, {}, {<<6, 2>>, <<9, 1>>}, {<<9, c9>>}))
       ELSE seen

\* after '-' and a digit run of length 0
parseDateExtQWReads(s) ==
    IF Len(s) >= 10 THEN
        LET n == countDigits(s, 6)
            c8 == countDigits(s, 8)
            c9 == countDigits(s, 9)
            seen == Reads({5}, {}, {}, {<<6, n>>})
        IN IF Read(s, 5) = ChQ THEN
               IF n # 1 THEN seen
               ELSE IF Read(s, 7) # ChMinus THEN Both(seen, Reads({7}, {}, {<<6, 1>>}, {}))
               ELSE IF c8 # 2 THEN Both(seen, Reads({7}, {}, {<<6, 1>>}, {<<8, c8>>}))
               ELSE Both(seen, Reads({7}, {}, {<<6, 1>>, <<8, 2>>}, {<<8, c8>>}))
           ELSE IF Read(s, 5) = ChW THEN
               IF n # 2 THEN seen
               ELSE IF Read(s, 8) # ChMinus THEN Both(seen, Reads({8}, {}, {<<6, 2>>}, {}))
               ELSE IF c9 # 1 THEN Both(seen, Reads({8}, {}, {<<6, 2>>}, {<<9, c9>>}))
               ELSE Both(seen, Reads({8}, {}, {<<6, 2>>, <<9, 1>>}, {<<9, c9>>}))
           ELSE seen
    ELSE NoReads

\* after '-'
parseDateExtReads(s) ==
    LET n == countDigits(s, 5)
        c == countDigits(s, 8)
    IN CASE n = 0 -> parseDateExtQWReads(s)
         [] n = 2 ->
              IF Read(s, 7) # ChMinus THEN Reads({7}, {}, {<<5, 2>>}, {})
              ELSE IF c # 2 THEN Reads({7}, {}, {<<5, 2>>}, {<<8, c>>})
              ELSE Reads({7}, {}, {<<5, 2>>, <<8, 2>>}, {<<8, c>>})
         [] n = 3 -> Reads({}, {}, {<<5, 3>>}, {})
         [] OTHER -> NoReads

\* a four-digit year
parseDateYearReads(s) ==
    LET n == countDigits(s, 5)
        year == Reads({}, {}, {<<0, 4>>}, {<<0, 4>>})
        next == Both(year, Reads({4}, {}, {}, {<<5, n>>}))
    IN IF Len(s) < 8 THEN Both(year, Reads({}, {4}, {}, {}))
       ELSE CASE Read(s, 4) = ChMinus -> Both(next, parseDateExtReads(s))
              [] Read(s, 4) = ChQ ->
                   IF n # 3 THEN next ELSE Both(next, Reads({}, {}, {<<5, 1>>, <<6, 2>>}, {}))
              [] Read(s, 4) = ChW ->
                   IF n # 3 THEN next ELSE Both(next, Reads({}, {}, {<<5, 2>>, <<7, 1>>}, {}))
              [] OTHER -> Both(next, Reads({}, {4}, {}, {}))

\* parseDate: positions are those of b after the '+' is dropped; sign holds
\* the position of b read for the '+' itself
parseDateReads(s) ==
    LET t == SliceFrom(s, Signed(s))
        n == countDigits(t, 0)
        body == CASE n = 4 -> parseDateYearReads(t)
                  [] n = 7 -> Reads({}, {}, {<<0, 4>>, <<4, 3>>}, {<<0, n>>})
                  [] n = 8 -> Reads({}, {}, {<<0, 4>>, <<4, 2>>, <<6, 2>>}, {<<0, n>>})
                  [] OTHER -> Reads({}, {}, {}, {<<0, n>>})
    IN [body EXCEPT !.sign = IF Len(s) > 0 THEN {0} ELSE {}]

\* mutant of ParseDate: the consumed count not compared with the length
ParseDateLax(s) == [val |-> parseDate(s).d, err |-> parseDate(s).err]

\* mutant of ParseDate: the consumed count compared before the error is looked at
ParseDateCountFirst(s) ==
    LET r == parseDate(s)
    IN IF Len(s) # r.n
       THEN [val |-> NilDate,
             err |-> UnexpectedTokenError(s, SliceFrom(s, r.n), SliceTo(s, r.n),
                                          SliceTo(s, r.n))]
       ELSE [val |-> IF r.err # NilErr THEN NilDate ELSE r.d, err |-> r.err]

\* the (DateLike, error) pair ParseDate returns
ParseDate(s) ==
    LET r == parseDate(s)
    IN IF r.err # NilErr THEN [val |-> NilDate, err |-> r.err]
       ELSE IF Len(s) # r.n
            THEN [val |-> NilDate,
                  err |-> UnexpectedTokenError(s, SliceFrom(s, r.n), SliceTo(s, r.n),
                                               SliceTo(s, r.n))]
       ELSE [val |-> r.d, err |-> r.err]

-----------------------------------------------------------------------------
(* Arguments of the calls: the byte strings handed to ParseDate and the    *)
(* values the methods are called on                                        *)

MaxRun   == 9   \* longest leading digit run
MaxRun2  == 4   \* longest digit run after the first separator
MaxRun3  == 3   \* longest digit run after the second separator
YearSpan == 28  \* years 2000 .. 2000 + YearSpan, every kind of year

\* "20121224" repeated: 2012 is a leap year of 52 weeks
RunDigits == <<2, 0, 1, 2, 1, 2, 2, 4>>
FieldDigits == <<1, 2, 4, 1>>
DayDigits == <<2, 4, 1>>

RECURSIVE DigitRun(_, _)
DigitRun(digits, len) ==
    IF len <= 0 THEN <<>>
    ELSE DigitRun(digits, len - 1) \o <<Ch0 + digits[((len - 1) % Len(digits)) + 1]>>

Signs == {<<>>, <<ChPlus>>, <<ChMinus>>, <<ChPlus, ChPlus>>}
\* 113 is 'q', 119 'w', 47 '/', 90 'Z'
Seps1 == {<<>>, <<ChMinus>>, <<ChQ>>, <<ChW>>, <<113>>, <<119>>, <<47>>, <<90>>,
          <<ChPlus>>, <<ChMinus, ChQ>>, <<ChMinus, ChW>>, <<ChMinus, 113>>,
          <<ChMinus, 119>>, <<ChMinus, ChMinus>>, <<ChMinus, ChPlus>>}
Seps2 == {<<>>, <<ChMinus>>, <<ChQ>>, <<90>>, <<ChMinus, ChMinus>>}
Tails == {<<>>, <<90>>, <<ChMinus>>}

\* strings built around a four-digit year, and plain digit runs of any length
StructInputs ==
    {sg \o DigitRun(RunDigits, 4) \o s1 \o DigitRun(FieldDigits, l2) \o s2
        \o DigitRun(DayDigits, l3) \o tl :
        sg \in Signs, s1 \in Seps1, l2 \in 0..MaxRun2, s2 \in Seps2,
        l3 \in 0..MaxRun3, tl \in Tails}
    \cup {sg \o DigitRun(RunDigits, l1) \o tl :
        sg \in Signs, l1 \in 0..MaxRun, tl \in Tails \cup Seps1}

ParseYears == {0, 1, 12, 1900, 2012, 2013, 2015, 9999}
Months2    == {0, 1, 2, 12, 13, 99}
Days2      == {0, 1, 28, 29, 30, 31, 32, 99}
Days3      == {0, 1, 365, 366, 367, 999}
Weeks2     == {0, 1, 52, 53, 54, 99}
Days1      == {0, 1, 7, 8}
Quarters1  == {0, 1, 2, 4, 5, 9}
QDays2     == {0, 1, 85, 90, 91, 92, 93, 99}

\* the eight shapes, with in-range and out-of-range fields
ShapeInputs ==
    LET Y(y) == FmtPad(y, 4)
        M    == <<ChMinus>>
    IN {Y(y) \o FmtPad(m, 2) \o FmtPad(d, 2) : y \in ParseYears, m \in Months2, d \in Days2}
       \cup {Y(y) \o FmtPad(d, 3) : y \in ParseYears, d \in Days3}
       \cup {Y(y) \o <<ChQ>> \o FmtPad(q, 1) \o FmtPad(d, 2) :
                y \in ParseYears, q \in Quarters1, d \in QDays2}
       \cup {Y(y) \o <<ChW>> \o FmtPad(w, 2) \o FmtPad(d, 1) :
                y \in ParseYears, w \in Weeks2, d \in Days1}
       \cup {Y(y) \o M \o FmtPad(m, 2) \o M \o FmtPad(d, 2) :
                y \in ParseYears, m \in Months2, d \in Days2}
       \cup {Y(y) \o M \o FmtPad(d, 3) : y \in ParseYears, d \in Days3}
       \cup {Y(y) \o M \o <<ChQ>> \o FmtPad(q, 1) \o M \o FmtPad(d, 2) :
                y \in ParseYears, q \in Quarters1, d \in QDays2}
       \cup {Y(y) \o M \o <<ChW>> \o FmtPad(w, 2) \o M \o FmtPad(d, 1) :
                y \in ParseYears, w \in Weeks2, d \in Days1}

\* a year below 1000 followed by what may follow a year, cut short or not
YearInputs ==
    {sg \o FmtPad(y, 4) \o s1 \o DigitRun(FieldDigits, l2) \o s2 :
        sg \in {<<>>, <<ChPlus>>}, y \in {0, 12, 123}, s1 \in Seps1,
        l2 \in 0..MaxRun2, s2 \in Seps2}

Inputs ==
    StructInputs \cup YearInputs \cup {sg \o s \o tl : sg \in {<<>>, <<ChPlus>>}, s \in ShapeInputs,
                                      tl \in {<<>>, <<90>>}}

Years == {-1, 0, 1, 4, 100, 400, 1900, 9998, 9999, 10000} \cup (2000..(2000 + YearSpan))
FullYears == {0, 1900, 2012, 2013}

Values ==
    {Date(y, m, d) : y \in Years, m \in 0..13, d \in {-1, 0, 1, 28, 29, 30, 31, 32}}
    \cup {OrdinalDate(y, d) : y \in Years, d \in {-1, 0, 1, 59, 60, 61, 365, 366, 367}}
    \cup {OrdinalDate(y, d) : y \in FullYears, d \in 1..366}
    \cup {WeekDate(y, w, d) : y \in Years, w \in {-1, 0, 1, 2, 26, 51, 52, 53, 54},
                              d \in 0..8}
    \cup {QuarterDate(y, q, d) : y \in Years, q \in -1..6,
                                 d \in {-1, 0, 1, 45, 89, 90, 91, 92, 93}}

-----------------------------------------------------------------------------
(* The state machine: one call of ParseDate or of a method, and a second   *)
(* call on the first one's result                                          *)

NoValue == [type |-> "none"]
NoInner == [n |-> -1, d |-> NilDate, err |-> NilErr]
NoRet   == [val |-> NilDate, err |-> NilErr, str |-> <<>>, valid |-> FALSE, num |-> 0]

Methods == {"Validate", "IsValid", "Date", "String"}

\* no call has returned yet
NoFirst == [op |-> "none"]

\* the package-level variables as the program starts
Tables ==
    /\ daysInMonthList = daysInMonthListInit
    /\ daysInQuarterList = daysInQuarterListInit

Init ==
    /\ Tables /\ first = NoFirst /\ reads = NoReads
    /\ pc = "start"
    /\ src = NoValue
    /\ inner = NoInner
    /\ ret = NoRet
    /\ args = <<>>
    /\ \/ op = "ParseDate" /\ b \in Inputs /\ recv = NoValue
       \/ op \in Methods /\ b = <<>> /\ recv \in Values

CallParseDate ==
    /\ pc = "start" /\ op = "ParseDate"
    /\ inner' = parseDate(b)
    /\ reads' = parseDateReads(b)
    /\ ret' = [NoRet EXCEPT !.val = ParseDate(b).val, !.err = ParseDate(b).err]
    /\ pc' = "done"
    /\ UNCHANGED <<daysInMonthList, daysInQuarterList, first>>
    /\ UNCHANGED <<op, b, recv, args, src>>

\* mutant of the Validate call: February patched in the table for a leap year
CallValidatePatchesTable ==
    /\ pc = "start" /\ op = "Validate"
    /\ ret' = [NoRet EXCEPT !.err = Validate(recv)]
    /\ pc' = "done"
    /\ daysInMonthList' = IF recv.type = "Date" /\ isLeapYear(recv.Year)
                          THEN [daysInMonthList EXCEPT ![3] = 29]
                          ELSE daysInMonthList
    /\ UNCHANGED <<daysInQuarterList, first, reads>>
    /\ UNCHANGED <<op, b, recv, args, src, inner>>

CallValidate ==
    /\ pc = "start" /\ op = "Validate"
    /\ ret' = [NoRet EXCEPT !.err = Validate(recv)]
    /\ pc' = "done"
    /\ UNCHANGED <<daysInMonthList, daysInQuarterList, first, reads>>
    /\ UNCHANGED <<op, b, recv, args, src, inner>>

CallIsValid ==
    /\ pc = "start" /\ op = "IsValid"
    /\ ret' = [NoRet EXCEPT !.valid = IsValid(recv)]
    /\ pc' = "done"
    /\ UNCHANGED <<daysInMonthList, daysInQuarterList, first, reads>>
    /\ UNCHANGED <<op, b, recv, args, src, inner>>

CallDate ==
    /\ pc = "start" /\ op = "Date"
    /\ ret' = [NoRet EXCEPT !.val = ToDate(recv)]
    /\ pc' = "done"
    /\ UNCHANGED <<daysInMonthList, daysInQuarterList, first, reads>>
    /\ UNCHANGED <<op, b, recv, args, src, inner>>

CallString ==
    /\ pc = "start" /\ op = "String"
    /\ ret' = [NoRet EXCEPT !.str = String(recv)]
    /\ pc' = "done"
    /\ UNCHANGED <<daysInMonthList, daysInQuarterList, first, reads>>
    /\ UNCHANGED <<op, b, recv, args, src, inner>>

\* the caller hands the text String returned to ParseDate
ThenParseDate ==
    /\ pc = "done" /\ op = "String" /\ src = NoValue
    /\ op' = "ParseDate" /\ b' = ret.str /\ src' = recv /\ recv' = NoValue
    /\ pc' = "start" /\ ret' = NoRet
    /\ UNCHANGED <<daysInMonthList, daysInQuarterList, first, reads>>
    /\ UNCHANGED <<args, inner>>

\* the caller validates the Date a conversion returned
ThenValidate ==
    /\ pc = "done" /\ op = "Date" /\ src = NoValue /\ ret.val # Panic
    /\ op' = "Validate" /\ src' = recv /\ recv' = ret.val
    /\ pc' = "start" /\ ret' = NoRet
    /\ UNCHANGED <<daysInMonthList, daysInQuarterList, first, reads>>
    /\ UNCHANGED <<b, args, inner>>

Next ==
    \/ CallParseDate
    \/ CallValidate
    \/ CallIsValid
    \/ CallDate
    \/ CallString
    \/ ThenParseDate
    \/ ThenValidate

Spec == Init /\ [][Next]_vars

-----------------------------------------------------------------------------
(* The calendar arithmetic on its own: one call of isLeapYear, daysInYear, *)
(* weeksInYear, daysInMonth or daysInQuarter                               *)

NegYears == 800  \* years below 0 handed to the arithmetic
WideSpan == 450  \* 64-bit years this far from 0, from -2^63 and from OverflowEdge

\* the largest year y for which (y-1) + (y-1)/4 - (y-1)/100 + (y-1)/400 is
\* at most 2^63 - 1: 7423237051794588176
OverflowEdge == Int64(FALSE, <<588176, 51794, 423237, 7>>)

Int64Years ==
    {Int64Of(y) : y \in (0 - WideSpan)..WideSpan}
    \cup {Int64Sum(MinInt64, Int64Of(k)) : k \in 0..WideSpan}
    \cup {Int64Sum(OverflowEdge, Int64Of(k)) : k \in (0 - 400 - WideSpan)..WideSpan}

CalYears == (0 - NegYears)..MaxYear

\* the last day of every week-numbering year and the first day of the next
YearEnds ==
    {WeekDate(y, weeksInYear(y), 7) : y \in MinYear..MaxYear}
    \cup {WeekDate(y, 1, 1) : y \in MinYear..MaxYear}

InitCal ==
    /\ Tables /\ first = NoFirst /\ reads = NoReads
    /\ pc = "start"
    /\ src = NoValue /\ b = <<>>
    /\ inner = NoInner
    /\ ret = NoRet
    /\ \/ /\ op \in {"isLeapYear", "daysInYear", "weeksInYear"}
          /\ args \in {<<y>> : y \in CalYears} /\ recv = NoValue
       \/ op = "weeksInYearInt64" /\ args \in {<<y>> : y \in Int64Years} /\ recv = NoValue
       \/ /\ op = "daysInMonth" /\ recv = NoValue
          /\ args \in {<<y, m>> : y \in 0..MaxYear, m \in 1..12}
       \/ /\ op = "daysInQuarter" /\ recv = NoValue
          /\ args \in {<<y, q>> : y \in 0..MaxYear, q \in 1..4}
       \/ op = "Date" /\ args = <<>> /\ recv \in YearEnds

CallIsLeapYear ==
    /\ pc = "start" /\ op = "isLeapYear"
    /\ ret' = [NoRet EXCEPT !.valid = isLeapYear(args[1])]
    /\ pc' = "done"
    /\ UNCHANGED <<daysInMonthList, daysInQuarterList, first, reads>>
    /\ UNCHANGED <<op, b, recv, args, src, inner>>

CallDaysInYear ==
    /\ pc = "start" /\ op = "daysInYear"
    /\ ret' = [NoRet EXCEPT !.num = daysInYear(args[1])]
    /\ pc' = "done"
    /\ UNCHANGED <<daysInMonthList, daysInQuarterList, first, reads>>
    /\ UNCHANGED <<op, b, recv, args, src, inner>>

CallWeeksInYear ==
    /\ pc = "start" /\ op = "weeksInYear"
    /\ ret' = [NoRet EXCEPT !.num = weeksInYear(args[1])]
    /\ pc' = "done"
    /\ UNCHANGED <<daysInMonthList, daysInQuarterList, first, reads>>
    /\ UNCHANGED <<op, b, recv, args, src, inner>>

CallWeeksInYearInt64 ==
    /\ pc = "start" /\ op = "weeksInYearInt64"
    /\ ret' = [NoRet EXCEPT !.num = weeksInYearInt64(args[1])]
    /\ pc' = "done"
    /\ UNCHANGED <<daysInMonthList, daysInQuarterList, first, reads>>
    /\ UNCHANGED <<op, b, recv, args, src, inner>>

CallDaysInMonth ==
    /\ pc = "start" /\ op = "daysInMonth"
    /\ ret' = [NoRet EXCEPT !.num = daysInMonth(args[1], args[2])]
    /\ pc' = "done"
    /\ UNCHANGED <<daysInMonthList, daysInQuarterList, first, reads>>
    /\ UNCHANGED <<op, b, recv, args, src, inner>>

CallDaysInQuarter ==
    /\ pc = "start" /\ op = "daysInQuarter"
    /\ ret' = [NoRet EXCEPT !.num = daysInQuarter(args[1], args[2])]
    /\ pc' = "done"
    /\ UNCHANGED <<daysInMonthList, daysInQuarterList, first, reads>>
    /\ UNCHANGED <<op, b, recv, args, src, inner>>

NextCal ==
    \/ CallIsLeapYear
    \/ CallDaysInYear
    \/ CallWeeksInYear
    \/ CallWeeksInYearInt64
    \/ CallDaysInMonth
    \/ CallDaysInQuarter
    \/ CallDate

SpecCal == InitCal /\ [][NextCal]_vars

-----------------------------------------------------------------------------
(* Calls in sequence: when a call has returned the caller makes another,   *)
(* any operation on any argument, and remembers what the first returned    *)

SeqInputs ==
    {FmtPad(2012, 4) \o FmtPad(229, 4), FmtPad(2013, 4) \o FmtPad(229, 4),
     FmtPad(2012, 4) \o <<ChQ>> \o FmtPad(191, 3), FmtPad(2013, 4) \o <<ChQ>> \o FmtPad(191, 3),
     <<ChPlus>> \o FmtPad(2015, 4) \o <<ChW>> \o FmtPad(537, 3),
     FmtPad(2013, 4) \o <<ChMinus>> \o FmtPad(366, 3), FmtPad(2012, 4)}

SeqValues ==
    {Date(2012, 2, 29), Date(2013, 2, 29), Date(2013, 4, 31),
     QuarterDate(2012, 1, 91), QuarterDate(2013, 1, 91), QuarterDate(2013, 3, 92),
     OrdinalDate(2013, 366), WeekDate(2015, 53, 7)}

InitSeq ==
    /\ Tables /\ first = NoFirst /\ reads = NoReads
    /\ pc = "start"
    /\ src = NoValue
    /\ inner = NoInner
    /\ ret = NoRet
    /\ args = <<>>
    /\ \/ op = "ParseDate" /\ b \in SeqInputs /\ recv = NoValue
       \/ op \in Methods /\ b = <<>> /\ recv \in SeqValues

\* the next call, after the one before has returned
Again ==
    /\ pc = "done"
    /\ first' = IF first = NoFirst
                THEN [op |-> op, b |-> b, recv |-> recv, ret |-> ret]
                ELSE first
    /\ \/ op' = "ParseDate" /\ b' \in SeqInputs /\ recv' = NoValue
       \/ op' \in Methods /\ b' = <<>> /\ recv' \in SeqValues
    /\ pc' = "start" /\ ret' = NoRet /\ inner' = NoInner /\ reads' = NoReads
    /\ UNCHANGED <<args, src, daysInMonthList, daysInQuarterList>>

NextSeq ==
    \/ CallParseDate
    \/ CallValidate
    \/ CallIsValid
    \/ CallDate
    \/ CallString
    \/ Again

SpecSeq == InitSeq /\ [][NextSeq]_vars

-----------------------------------------------------------------------------
(* WeekDate.Date() step by step: args holds the local variable thursday    *)
(* and the number of times the loop body has run                           *)

LoopSpan == 400  \* a whole cycle of the Gregorian calendar

LoopYears == (0 - YearSpan)..LoopSpan \cup {MaxYear, MaxYear + 1}

InitLoop ==
    /\ Tables /\ first = NoFirst /\ reads = NoReads
    /\ pc = "start"
    /\ src = NoValue /\ b = <<>>
    /\ inner = NoInner
    /\ ret = NoRet
    /\ args = <<>>
    /\ op = "Date" /\ recv \in {WeekDate(y, 1, 1) : y \in LoopYears}

\* thursday := time.Date(w.Year, time.January, 1, ...)
LoopEnter ==
    /\ pc = "start" /\ op = "Date" /\ recv.type = "WeekDate"
    /\ args' = <<TimeDate(recv.Year, 1, 1), 0>>
    /\ pc' = "loop"
    /\ UNCHANGED <<daysInMonthList, daysInQuarterList, first, reads>>
    /\ UNCHANGED <<op, b, recv, src, inner, ret>>

\* mutant of the loop body: a day back instead of a day on
LoopStepBack ==
    /\ pc = "loop" /\ Weekday(args[1]) # Thursday
    /\ args' = <<AddDays(args[1], 0 - 1), args[2] + 1>>
    /\ UNCHANGED <<daysInMonthList, daysInQuarterList, first, reads>>
    /\ UNCHANGED <<op, b, recv, src, pc, inner, ret>>

\* for thursday.Weekday() != time.Thursday { thursday = thursday.AddDate(0, 0, 1) }
LoopStep ==
    /\ pc = "loop" /\ Weekday(args[1]) # Thursday
    /\ args' = <<AddDays(args[1], 1), args[2] + 1>>
    /\ UNCHANGED <<daysInMonthList, daysInQuarterList, first, reads>>
    /\ UNCHANGED <<op, b, recv, src, pc, inner, ret>>

\* the loop is left and the date computed from the Thursday found
LoopExit ==
    /\ pc = "loop" /\ Weekday(args[1]) = Thursday
    /\ LET monday == AddDays(args[1], 0 - 3)
           t      == AddDays(monday, (recv.Week - 1) * 7 + recv.Day - 1)
       IN ret' = [NoRet EXCEPT !.val = Date(TimeYear(t), TimeMonth(t), TimeDay(t))]
    /\ pc' = "done"
    /\ UNCHANGED <<daysInMonthList, daysInQuarterList, first, reads>>
    /\ UNCHANGED <<op, b, recv, args, src, inner>>

NextLoop ==
    \/ LoopEnter
    \/ LoopStep
    \/ LoopExit

\* the code runs on: a step that can be taken is taken
SpecLoop == InitLoop /\ [][NextLoop]_vars /\ WF_vars(NextLoop)

-----------------------------------------------------------------------------
(* countDigits called on its own: b is the byte slice, args the index      *)

MaxBytes == 3  \* longest byte slice of sampled bytes

\* bytes around '0' and '9', the separators, and the ends of the byte range
ByteSample == {0, ChPlus, ChMinus, 47, Ch0, 49, 57, 58, ChQ, 255}

RECURSIVE ByteSeqs(_)
ByteSeqs(n) ==
    IF n = 0 THEN {<<>>}
    ELSE ByteSeqs(n - 1) \cup {s \o <<c>> : s \in ByteSeqs(n - 1), c \in ByteSample}

DigitInputs == ByteSeqs(MaxBytes) \cup {<<c>> : c \in 0..255} \cup {<<Ch0, c>> : c \in 0..255}

InitDigits ==
    /\ Tables /\ first = NoFirst /\ reads = NoReads
    /\ pc = "start"
    /\ src = NoValue /\ recv = NoValue
    /\ inner = NoInner
    /\ ret = NoRet
    /\ op = "countDigits"
    /\ b \in DigitInputs
    /\ args \in {<<i>> : i \in 0..(MaxBytes + 1)}

CallCountDigits ==
    /\ pc = "start" /\ op = "countDigits"
    /\ ret' = [NoRet EXCEPT !.num = countDigits(b, args[1])]
    /\ pc' = "done"
    /\ UNCHANGED <<daysInMonthList, daysInQuarterList, first, reads>>
    /\ UNCHANGED <<op, b, recv, args, src, inner>>

NextDigits == CallCountDigits

SpecDigits == InitDigits /\ [][NextDigits]_vars

-----------------------------------------------------------------------------
(* The grammar of section 4.3, stated without the parser: the eight        *)
(* shapes, their fields and the value each one denotes                     *)

IsDigit(c) == c \in 48..57

\* a shape: 0 stands for one ASCII digit, any other entry for that byte
Shapes == <<
    <<0, 0, 0, 0, 0, 0, 0, 0>>,                           \* DDDDDDDD
    <<0, 0, 0, 0, 0, 0, 0>>,                              \* DDDDDDD
    <<0, 0, 0, 0, ChQ, 0, 0, 0>>,                         \* DDDDQDDD
    <<0, 0, 0, 0, ChW, 0, 0, 0>>,                         \* DDDDWDDD
    <<0, 0, 0, 0, ChMinus, 0, 0, ChMinus, 0, 0>>,         \* DDDD-DD-DD
    <<0, 0, 0, 0, ChMinus, 0, 0, 0>>,                     \* DDDD-DDD
    <<0, 0, 0, 0, ChMinus, ChQ, 0, ChMinus, 0, 0>>,       \* DDDD-QD-DD
    <<0, 0, 0, 0, ChMinus, ChW, 0, 0, ChMinus, 0>> >>     \* DDDD-WDD-D

Matches(s, shape) ==
    /\ Len(s) = Len(shape)
    /\ \A i \in 1..Len(shape) :
          IF shape[i] = 0 THEN IsDigit(s[i]) ELSE s[i] = shape[i]

HasSign(s) == Len(s) > 0 /\ s[1] = ChPlus

\* the input with at most one leading '+' removed
Unsign(s) == IF HasSign(s) THEN Tail(s) ELSE s

\* the shape the whole text has, 0 when it has none
ShapeOf(s) ==
    IF \E k \in 1..Len(Shapes) : Matches(Unsign(s), Shapes[k])
    THEN CHOOSE k \in 1..Len(Shapes) : Matches(Unsign(s), Shapes[k])
    ELSE 0

\* the decimal value of the digits s[from..to]
RECURSIVE Decimal(_, _, _)
Decimal(s, from, to) ==
    IF to < from THEN 0 ELSE 10 * Decimal(s, from, to - 1) + (s[to] - 48)

\* the value a text u of shape k denotes
Denoted(k, u) ==
    CASE k = 1 -> Date(Decimal(u, 1, 4), Decimal(u, 5, 6), Decimal(u, 7, 8))
      [] k = 2 -> OrdinalDate(Decimal(u, 1, 4), Decimal(u, 5, 7))
      [] k = 3 -> QuarterDate(Decimal(u, 1, 4), Decimal(u, 6, 6), Decimal(u, 7, 8))
      [] k = 4 -> WeekDate(Decimal(u, 1, 4), Decimal(u, 6, 7), Decimal(u, 8, 8))
      [] k = 5 -> Date(Decimal(u, 1, 4), Decimal(u, 6, 7), Decimal(u, 9, 10))
      [] k = 6 -> OrdinalDate(Decimal(u, 1, 4), Decimal(u, 6, 8))
      [] k = 7 -> QuarterDate(Decimal(u, 1, 4), Decimal(u, 7, 7), Decimal(u, 9, 10))
      [] k = 8 -> WeekDate(Decimal(u, 1, 4), Decimal(u, 7, 8), Decimal(u, 10, 10))

\* the extended spelling of a text u of a basic shape k in 1..4
Extended(k, u) ==
    CASE k = 1 -> SubSeq(u, 1, 4) \o <<ChMinus>> \o SubSeq(u, 5, 6) \o <<ChMinus>>
                    \o SubSeq(u, 7, 8)
      [] k = 2 -> SubSeq(u, 1, 4) \o <<ChMinus>> \o SubSeq(u, 5, 7)
      [] k = 3 -> SubSeq(u, 1, 4) \o <<ChMinus, ChQ>> \o SubSeq(u, 6, 6) \o <<ChMinus>>
                    \o SubSeq(u, 7, 8)
      [] k = 4 -> SubSeq(u, 1, 4) \o <<ChMinus, ChW>> \o SubSeq(u, 6, 7) \o <<ChMinus>>
                    \o SubSeq(u, 8, 8)

\* the ranges of section 3, field by field in the order they are checked:
\* <<element, value, min, max>>
FieldRanges(v) ==
    CASE v.type = "Date" ->
           <<<<"year", v.Year, 0, 9999>>, <<"month", v.Month, 1, 12>>,
             <<"day of month", v.Day, 1,
               IF v.Month \in 1..12 THEN daysInMonth(v.Year, v.Month) ELSE 0>>>>
      [] v.type = "OrdinalDate" ->
           <<<<"year", v.Year, 0, 9999>>, <<"day of year", v.Day, 1, daysInYear(v.Year)>>>>
      [] v.type = "WeekDate" ->
           <<<<"year", v.Year, 0, 9999>>, <<"day of week", v.Day, 1, 7>>,
             <<"week", v.Week, 1,
               IF v.Year \in 0..9999 THEN weeksInYear(v.Year) ELSE 0>>>>
      [] v.type = "QuarterDate" ->
           <<<<"year", v.Year, 0, 9999>>, <<"quarter", v.Quarter, 1, 4>>,
             <<"day of quarter", v.Day, 1,
               IF v.Quarter \in 1..4 THEN daysInQuarter(v.Year, v.Quarter) ELSE 0>>>>

Fails(r) == r[2] < r[3] \/ r[2] > r[4]

AllInRange(v) == \A i \in 1..Len(FieldRanges(v)) : ~Fails(FieldRanges(v)[i])

\* the error of the first failing field
FirstRangeError(v) ==
    LET rs == FieldRanges(v)
        i  == CHOOSE j \in 1..Len(rs) : Fails(rs[j]) /\ \A h \in 1..(j - 1) : ~Fails(rs[h])
    IN [kind |-> "DateLikeRangeError", Element |-> rs[i][1], Value |-> rs[i][2],
        Year |-> v.Year, Min |-> rs[i][3], Max |-> rs[i][4]]

ParseDone == op = "ParseDate" /\ pc = "done"

-----------------------------------------------------------------------------
(* Claims *)

\* C1: ParseDate(s) succeeds if and only if s, after removing at most one
\* leading '+', is exactly one of the eight shapes and the fields it denotes
\* pass the matching Validate; every other input is rejected with an error.
C1_AcceptedInputs ==
    ParseDone =>
        (ret.err = NilErr <=>
            (ShapeOf(b) # 0 /\ Validate(Denoted(ShapeOf(b), Unsign(b))) = NilErr))

\* a signed extended week date is accepted
C1_Witness ==
    ParseDone /\ ret.err = NilErr /\ HasSign(b) /\ ShapeOf(b) = 8

\* C2: round trip: for every valid Date, OrdinalDate, WeekDate and QuarterDate
\* R, ParseDate(R.String()) returns no error and a value of the same type with
\* fields equal to R.
C2_RoundTrip ==
    (ParseDone /\ src # NoValue /\ Validate(src) = NilErr) =>
        (ret.err = NilErr /\ ret.val = src)

\* a valid week date of a one-digit week went through String and ParseDate
C2_Witness ==
    /\ ParseDone /\ src # NoValue /\ Validate(src) = NilErr
    /\ src.type = "WeekDate" /\ src.Week < 10 /\ ret.val = src

\* C3: conversion totality: for every OrdinalDate, WeekDate and QuarterDate
\* whose Validate() returns nil, Date() returns a Date whose Validate() also
\* returns nil.
C3_ConversionTotality ==
    (op = "Validate" /\ pc = "done" /\ src # NoValue /\ Validate(src) = NilErr) =>
        ret.err = NilErr

\* C4: strict consumption: whenever the inner parse succeeds having consumed
\* n characters and n differs from the input length, ParseDate returns no
\* value and an UnexpectedTokenError whose Token is input[n:], whose AfterToken
\* and Expected are input[:n] and whose Value is the whole input; every
\* successfully parsed input has length 7, 8 or 10, plus 1 when signed.
C4_StrictConsumption ==
    ParseDone =>
        /\ (inner.err = NilErr /\ inner.n # Len(b)) =>
              /\ ret.val = NilDate
              /\ ret.err.kind = "UnexpectedTokenError"
              /\ ret.err.Value = b
              /\ ret.err.Token = SubSeq(b, inner.n + 1, Len(b))
              /\ ret.err.AfterToken = SubSeq(b, 1, inner.n)
              /\ ret.err.Expected = SubSeq(b, 1, inner.n)
        /\ ret.err = NilErr =>
              Len(b) - (IF HasSign(b) THEN 1 ELSE 0) \in {7, 8, 10}

\* a signed date followed by one more character is refused
C4_Witness ==
    /\ ParseDone /\ inner.err = NilErr /\ inner.n # Len(b) /\ HasSign(b)
    /\ ret.err.kind = "UnexpectedTokenError" /\ Len(ret.err.Token) = 1

\* C5: ParseDate returns exactly one of a value and an error: with a nil error
\* the DateLike is non-nil and valid (year in 0..9999, every other field in
\* range); with a non-nil error the DateLike is nil.
C5_ValueXorError ==
    ParseDone =>
        /\ ret.err = NilErr =>
              (ret.val # NilDate /\ IsValid(ret.val) /\ AllInRange(ret.val))
        /\ ret.err # NilErr => ret.val = NilDate

\* a quarter date is returned without an error
C5_Witness ==
    ParseDone /\ ret.err = NilErr /\ ret.val # NilDate /\ ret.val.type = "QuarterDate"

ShapeLen == <<8, 7, 8, 8, 10, 8, 10, 10>>

\* C7: dispatch and field extraction: for each of the eight shapes with
\* in-range fields, parseDate returns the representation the shape fixes, with
\* every field the decimal value of its digit substring, and a consumed count
\* of 8, 7, 8, 8, 10, 8, 10, 10 (plus 1 when signed); the basic and the
\* extended spelling of the same fields yield equal values.
C7_Dispatch ==
    (ParseDone /\ ShapeOf(b) # 0 /\ AllInRange(Denoted(ShapeOf(b), Unsign(b)))) =>
        LET k == ShapeOf(b)
        IN /\ inner.err = NilErr
           /\ inner.d = Denoted(k, Unsign(b))
           /\ inner.n = ShapeLen[k] + (IF HasSign(b) THEN 1 ELSE 0)
           /\ k <= 4 => ParseDate(Extended(k, Unsign(b))).val = ret.val

\* a basic week date is read as week and day of the week
C7_Witness ==
    /\ ParseDone /\ ShapeOf(b) = 4 /\ inner.err = NilErr
    /\ inner.d.type = "WeekDate" /\ inner.d.Week > 9 /\ inner.n = 8

\* C8: validity predicate: for any integer field values, IsValid() equals
\* (Validate() == nil), and it is true exactly when year is in 0..9999 and the
\* other fields are in their ranges (month 1..12 and day 1..daysInMonth; day
\* 1..daysInYear; week 1..weeksInYear and day 1..7; quarter 1..4 and day
\* 1..daysInQuarter).
C8_ValidityPredicate ==
    /\ (op = "IsValid" /\ pc = "done") =>
          /\ ret.valid = (Validate(recv) = NilErr)
          /\ ret.valid = AllInRange(recv)
    /\ (op = "Validate" /\ pc = "done") =>
          (ret.err = NilErr) = AllInRange(recv)

\* February 29 of a leap year is valid
C8_Witness ==
    /\ op = "IsValid" /\ pc = "done" /\ ret.valid
    /\ recv.type = "Date" /\ recv.Month = 2 /\ recv.Day = 29

\* C9: range errors are fail-fast and self-describing: Validate returns the
\* DateLikeRangeError of the first failing check in the order year, then month
\* / quarter / day of week, then day of month / day of quarter / week / day of
\* year, with Element, Value, Year, Min and Max of that field; ParseDate
\* surfaces exactly this error for a well-formed input with an out-of-range
\* field.
C9_RangeErrors ==
    /\ (op = "Validate" /\ pc = "done" /\ ~AllInRange(recv)) =>
          ret.err = FirstRangeError(recv)
    /\ (ParseDone /\ ShapeOf(b) # 0 /\ ~AllInRange(Denoted(ShapeOf(b), Unsign(b)))) =>
          /\ ret.err = FirstRangeError(Denoted(ShapeOf(b), Unsign(b)))
          /\ ret.val = NilDate

\* a week date with both the week and the day out of range reports the day
C9_Witness ==
    /\ op = "Validate" /\ pc = "done" /\ recv.type = "WeekDate"
    /\ recv.Year \in 0..9999 /\ recv.Week > 53 /\ recv.Day > 7
    /\ ret.err.kind = "DateLikeRangeError" /\ ret.err.Element = "day of week"

\* C10: syntax errors never come from out-of-range values: every input whose
\* whole text (after an optional '+') matches one of the eight shapes yields
\* either a value or a DateLikeRangeError, never an UnexpectedTokenError.
C10_NoSyntaxErrorFromRange ==
    (ParseDone /\ ShapeOf(b) # 0) =>
        \/ ret.err = NilErr /\ ret.val # NilDate
        \/ ret.err.kind = "DateLikeRangeError"

\* an extended ordinal date of day 000 yields a range error
C10_Witness ==
    /\ ParseDone /\ ShapeOf(b) = 6 /\ Denoted(6, Unsign(b)).Day = 0
    /\ ret.err.kind = "DateLikeRangeError"


\* the shape a prefix of the unsigned text has, when the digit run that ends
\* the prefix ends there too; 0 when there is none
PrefixShapeOf(s) ==
    LET u   == Unsign(s)
        fit == {k \in 1..Len(Shapes) :
                   /\ Len(u) >= Len(Shapes[k])
                   /\ Matches(SubSeq(u, 1, Len(Shapes[k])), Shapes[k])
                   /\ (Len(u) = Len(Shapes[k]) \/ ~IsDigit(u[Len(Shapes[k]) + 1]))}
    IN IF fit = {} THEN 0 ELSE CHOOSE k \in fit : TRUE

\* the value the shaped prefix denotes
PrefixDenoted(s) ==
    Denoted(PrefixShapeOf(s), SubSeq(Unsign(s), 1, Len(Shapes[PrefixShapeOf(s)])))

\* C11 as claimed: a DateLikeRangeError is returned by ParseDate only after
\* structural parsing has fully succeeded, total consumption included: an
\* input with trailing characters after a date shape yields an
\* UnexpectedTokenError even when a field already scanned is out of range.
C11_RangeErrorAfterTotalConsumption ==
    (ParseDone /\ ret.err.kind = "DateLikeRangeError") => ShapeOf(b) # 0

\* C11 as amended: a DateLikeRangeError is returned by ParseDate exactly when
\* a prefix of the input (after an optional '+') has one of the eight shapes,
\* with the digit run ending where the shape ends, and a field of it is out
\* of range; it is then the error of that field, whether or not characters
\* follow the shape. A wrong digit-run length or separator inside the shape
\* yields an UnexpectedTokenError even when a field already scanned is out of
\* range.
C11_RangeErrorAfterShape ==
    ParseDone =>
        /\ ret.err.kind = "DateLikeRangeError" <=>
              (PrefixShapeOf(b) # 0 /\ ~AllInRange(PrefixDenoted(b)))
        /\ ret.err.kind = "DateLikeRangeError" => ret.err = FirstRangeError(PrefixDenoted(b))
        /\ (PrefixShapeOf(b) = 0) => ret.err.kind = "UnexpectedTokenError"

\* a basic calendar date of month 13 followed by a letter reports the month
C11_Witness ==
    /\ ParseDone /\ ShapeOf(b) = 0 /\ PrefixShapeOf(b) = 1
    /\ ret.err.kind = "DateLikeRangeError" /\ ret.err.Element = "month"


\* C12: in every UnexpectedTokenError returned by ParseDate, the Value field
\* equals the full input passed to ParseDate, including a leading '+' when the
\* input has one.
C12_ValueIsFullInput ==
    (ParseDone /\ ret.err.kind = "UnexpectedTokenError") => ret.err.Value = b


Converted == op = "Date" /\ pc = "done" /\ recv.type # "Date" /\ Validate(recv) = NilErr

\* (year, month, day) order of calendar dates
DateBefore(x, y) ==
    \/ x.Year < y.Year
    \/ x.Year = y.Year /\ x.Month < y.Month
    \/ x.Year = y.Year /\ x.Month = y.Month /\ x.Day < y.Day

\* field order of two values of the same type: year, week or quarter, day
FieldsBefore(x, y) ==
    LET mid(v) == CASE v.type = "WeekDate" -> v.Week
                    [] v.type = "QuarterDate" -> v.Quarter
                    [] OTHER -> 0
    IN \/ x.Year < y.Year
       \/ x.Year = y.Year /\ mid(x) < mid(y)
       \/ x.Year = y.Year /\ mid(x) = mid(y) /\ x.Day < y.Day

\* valid values of the type of v in the year of v and in the next year: the
\* days (weeks, quarters) that follow v, and those around the end of February
\* and the two ends of the year (of the quarter)
SameTypeNear(v) ==
    LET ys == {y \in {v.Year, v.Year + 1} : y <= MaxYear}
        all == CASE v.type = "OrdinalDate" ->
                      {OrdinalDate(y, d) : y \in ys,
                          d \in {1, 2, 59, 60, 61, 365, 366, v.Day + 1, v.Day + 2}}
                 [] v.type = "WeekDate" ->
                      {WeekDate(y, w, d) : y \in ys,
                          w \in {1, 2, 52, 53, v.Week, v.Week + 1}, d \in 1..7}
                 [] v.type = "QuarterDate" ->
                      {QuarterDate(y, q, d) : y \in ys, q \in 1..4,
                          d \in {1, 2, 90, 91, 92, v.Day + 1}}
    IN {w \in all : Validate(w) = NilErr}

\* C13: order preservation: for any two valid values a and b of the same
\* non-canonical type, if a precedes b in field order (year, then week or
\* quarter, then day) then a.Date() strictly precedes b.Date() in (year,
\* month, day) order, across year boundaries too.
C13_OrderPreserved ==
    Converted =>
        \A w \in SameTypeNear(recv) :
            FieldsBefore(recv, w) => DateBefore(ret.val, ToDate(w))

\* the last day of a week-numbering year was converted, so that the first
\* days of the next year are among the values it is compared with
C13_Witness ==
    /\ Converted /\ recv.type = "WeekDate" /\ recv.Week = weeksInYear(recv.Year)
    /\ recv.Day = 7 /\ recv.Year < MaxYear /\ ret.val.Year = recv.Year + 1


\* ISO 8601 weekday of a day number: Monday = 1 .. Sunday = 7
IsoWeekday(n) == IF Weekday(n) = 0 THEN 7 ELSE Weekday(n)

\* ISO 8601 week date of a day number: a week belongs to the year that holds
\* its Thursday, and is numbered by the rank of that Thursday in the year
IsoWeekDateOf(n) ==
    LET th == n - IsoWeekday(n) + 4
        est == (th * 400) \div 146097
        y  == CHOOSE c \in (est - 2)..(est + 2) :
                  StdDaysBeforeYear(c) <= th /\ th < StdDaysBeforeYear(c + 1)
    IN <<y, ((th - StdDaysBeforeYear(y)) \div 7) + 1, IsoWeekday(n)>>

IsCalendarDate(d) ==
    /\ d.type = "Date" /\ d.Month \in 1..12
    /\ d.Day \in 1..StdMonthDays(d.Year, d.Month)

\* C14: WeekDate.Date: for a valid WeekDate{y, w, d} the result is the unique
\* calendar date whose ISO weekday is d and which lies in ISO week w of
\* week-numbering year y; its Gregorian year may be y - 1 only during week 1
\* and y + 1 only during the final week of y.
C14_WeekDateDate ==
    (op = "Date" /\ pc = "done" /\ recv.type = "WeekDate" /\ Validate(recv) = NilErr) =>
        LET n   == TimeDate(ret.val.Year, ret.val.Month, ret.val.Day)
            ywd == <<recv.Year, recv.Week, recv.Day>>
        IN /\ IsCalendarDate(ret.val)
           /\ IsoWeekDateOf(n) = ywd
           /\ \A k \in (n - 7)..(n + 7) : IsoWeekDateOf(k) = ywd => k = n
           /\ ret.val.Year \in {recv.Year - 1, recv.Year, recv.Year + 1}
           /\ ret.val.Year = recv.Year - 1 => recv.Week = 1
           /\ ret.val.Year = recv.Year + 1 => IsoWeekDateOf(n + 7)[1] # recv.Year

\* a day of week 1 that falls in the Gregorian year before
C14_Witness ==
    /\ op = "Date" /\ pc = "done" /\ recv.type = "WeekDate" /\ Validate(recv) = NilErr
    /\ recv.Week = 1 /\ ret.val = Date(recv.Year - 1, 12, 31)


Divisible(y, k) == (y \div k) * k = y

\* the Gregorian leap-year rule
GregorianLeap(y) == Divisible(y, 4) /\ (~Divisible(y, 100) \/ Divisible(y, 400))

CalDone(f) == op = f /\ pc = "done" /\ args[1] \in MinYear..MaxYear

\* C15: weeksInYear(y) returns 53 exactly when January 1 of year y in the
\* proleptic Gregorian calendar is a Thursday, or is a Wednesday and y is a
\* leap year, and 52 otherwise, for every y in 0..9999. The reference counts
\* days from Saturday 0000-01-01; the count grows by the length of each year.
C15_WeeksInYear ==
    CalDone("weeksInYear") =>
        LET y    == args[1]
            jan1 == Weekday(TimeDate(y, 1, 1))
        IN /\ StdDaysBeforeYear(0) = 0 /\ Weekday(0) = 6
           /\ StdDaysBeforeYear(y + 1) - StdDaysBeforeYear(y)
                 = (IF GregorianLeap(y) THEN 366 ELSE 365)
           /\ ret.num = (IF jan1 = 4 \/ (jan1 = 3 /\ GregorianLeap(y)) THEN 53 ELSE 52)

\* a leap year that starts on a Wednesday
C15_Witness ==
    /\ CalDone("weeksInYear")
    /\ Weekday(TimeDate(args[1], 1, 1)) = 3
    /\ GregorianLeap(args[1]) /\ ret.num = 53

\* C18: leap-year laws: for every year y in 0..9999, isLeapYear(y) holds iff
\* y is divisible by 4 and (not by 100 or by 400); daysInYear(y) = 366,
\* daysInMonth(y, 2) = 29 and daysInQuarter(y, 1) = 91 each hold exactly when
\* y is a leap year; every other month and quarter returns its fixed table
\* value whatever the year.
C18_LeapYearLaws ==
    /\ CalDone("isLeapYear") => (ret.valid <=> GregorianLeap(args[1]))
    /\ CalDone("daysInYear") =>
          /\ ret.num = 366 <=> GregorianLeap(args[1])
          /\ ret.num \in {365, 366}
    /\ CalDone("daysInMonth") =>
          IF args[2] = 2
          THEN /\ ret.num = 29 <=> GregorianLeap(args[1])
               /\ ret.num \in {28, 29}
          ELSE ret.num = <<31, 28, 31, 30, 31, 30, 31, 31, 30, 31, 30, 31>>[args[2]]
    /\ CalDone("daysInQuarter") =>
          IF args[2] = 1
          THEN /\ ret.num = 91 <=> GregorianLeap(args[1])
               /\ ret.num \in {90, 91}
          ELSE ret.num = <<90, 91, 92, 92>>[args[2]]

\* the first quarter of a year divisible by 400
C18_Witness ==
    /\ CalDone("daysInQuarter") /\ args[2] = 1
    /\ Divisible(args[1], 400) /\ args[1] > 0 /\ ret.num = 91


ConvertedFrom(t) == op = "Date" /\ pc = "done" /\ recv.type = t /\ Validate(recv) = NilErr

\* the days of the months of year y before month m
RECURSIVE DaysBeforeMonth(_, _)
DaysBeforeMonth(y, m) ==
    IF m <= 1 THEN 0 ELSE DaysBeforeMonth(y, m - 1) + daysInMonth(y, m - 1)

\* C16: OrdinalDate.Date(): for every valid OrdinalDate{y, n} the result
\* Date{y, m, d} has the same year and d plus the days of the months before m
\* equals n, with 1 <= d <= daysInMonth(y, m); day 60 is February 29 in a leap
\* year and March 1 otherwise.
C16_OrdinalDateDate ==
    ConvertedFrom("OrdinalDate") =>
        /\ ret.val.type = "Date"
        /\ ret.val.Year = recv.Year
        /\ ret.val.Month \in 1..12
        /\ ret.val.Day + DaysBeforeMonth(recv.Year, ret.val.Month) = recv.Day
        /\ 1 <= ret.val.Day /\ ret.val.Day <= daysInMonth(recv.Year, ret.val.Month)
        /\ recv.Day = 60 =>
              ret.val = (IF GregorianLeap(recv.Year) THEN Date(recv.Year, 2, 29)
                                                     ELSE Date(recv.Year, 3, 1))

\* day 60 of a leap year
C16_Witness ==
    /\ ConvertedFrom("OrdinalDate") /\ recv.Day = 60
    /\ ret.val = Date(recv.Year, 2, 29)

\* the days of the quarters of year y before quarter q
RECURSIVE DaysBeforeQuarter(_, _)
DaysBeforeQuarter(y, q) ==
    IF q <= 1 THEN 0 ELSE DaysBeforeQuarter(y, q - 1) + daysInQuarter(y, q - 1)

\* C17: QuarterDate.Date(): for every valid QuarterDate{y, q, d} the result
\* equals OrdinalDate{y, d + the days of the quarters before q}.Date(), that
\* ordinal date is itself valid, and the month of the result is one of the
\* three months of the quarter, 3q - 2 .. 3q.
C17_QuarterDateDate ==
    ConvertedFrom("QuarterDate") =>
        LET o == OrdinalDate(recv.Year, recv.Day + DaysBeforeQuarter(recv.Year, recv.Quarter))
        IN /\ ret.val = OrdinalDateDate(o)
           /\ OrdinalDateValidate(o) = NilErr
           /\ ret.val.Month \in (3 * recv.Quarter - 2)..(3 * recv.Quarter)

\* the last day of the fourth quarter
C17_Witness ==
    /\ ConvertedFrom("QuarterDate") /\ recv.Quarter = 4 /\ recv.Day = 92
    /\ ret.val = Date(recv.Year, 12, 31)


\* the length of the leading run of digits of u
LeadRun(u) ==
    CHOOSE k \in 0..Len(u) :
        /\ \A i \in 1..k : IsDigit(u[i])
        /\ k = Len(u) \/ ~IsDigit(u[k + 1])

\* C19: when the first digit run has length 4 and the input (after an optional
\* '+') is shorter than 8 characters, ParseDate fails with an
\* UnexpectedTokenError whose Expected is "8 or more characters", whose Token
\* is the rest of the input after the four year characters and whose
\* AfterToken is the four year characters of the input; the length check comes
\* before every check of the character after the year.
C19_ShortInput ==
    (ParseDone /\ LeadRun(Unsign(b)) = 4 /\ Len(Unsign(b)) < 8) =>
        /\ ret.val = NilDate
        /\ ret.err.kind = "UnexpectedTokenError"
        /\ ret.err.Expected = Str8OrMore
        /\ ret.err.Token = SubSeq(Unsign(b), 5, Len(Unsign(b)))
        /\ ret.err.AfterToken = SubSeq(Unsign(b), 1, 4)


\* the text "N-digit" or "N-digits" for a count N below 100
RunLengthText(n) ==
    LET num == IF n < 10 THEN <<48 + n>> ELSE <<48 + (n \div 10), 48 + (n % 10)>>
    IN num \o <<45, 100, 105, 103, 105, 116>> \o (IF n <= 1 THEN <<>> ELSE <<115>>)

\* C20: when the initial digit run (after an optional '+') has a length other
\* than 4, 7 or 8, including 0 for an empty input, a lone '+', a leading '-'
\* or a second '+', ParseDate fails with an UnexpectedTokenError whose Token
\* describes the observed run length ("N-digit" for N <= 1, "N-digits"
\* otherwise), whose AfterToken is empty and whose Expected is "date format".
C20_OtherRunLength ==
    (ParseDone /\ LeadRun(Unsign(b)) \notin {4, 7, 8}) =>
        /\ ret.val = NilDate
        /\ ret.err.kind = "UnexpectedTokenError"
        /\ ret.err.Token = RunLengthText(LeadRun(Unsign(b)))
        /\ ret.err.AfterToken = <<>>
        /\ ret.err.Expected = StrDateFormat

\* a single digit after the sign
C20_Witness ==
    /\ ParseDone /\ HasSign(b) /\ LeadRun(Unsign(b)) = 1
    /\ ret.err.kind = "UnexpectedTokenError"
    /\ ret.err.Token = <<49, 45, 100, 105, 103, 105, 116>>


\* the byte of u at position p (from 1), or -1 past its end
ByteAt(u, p) == IF p <= Len(u) THEN u[p] ELSE 0 - 1

\* the length of the run of digits of u that starts at position p (from 1)
RunFrom(u, p) ==
    IF p > Len(u) THEN 0
    ELSE CHOOSE k \in 0..(Len(u) - p + 1) :
             /\ \A i \in p..(p + k - 1) : IsDigit(u[i])
             /\ p + k > Len(u) \/ ~IsDigit(u[p + k])

\* ParseDate failed with the syntax error that describes a run of c digits
\* where e was expected
RunError(c, e) ==
    /\ ret.val = NilDate
    /\ ret.err.kind = "UnexpectedTokenError"
    /\ ret.err.Token = RunLengthText(c)
    /\ ret.err.Expected = e

\* a four-digit year was read and the input is long enough for what follows
YearRead == ParseDone /\ LeadRun(Unsign(b)) = 4 /\ Len(Unsign(b)) >= 8

\* C21: where a digit run of fixed length k is expected (3 after a basic 'Q'
\* or 'W'; 1 after an extended 'Q' and 2 after an extended 'W'; 2 for the day
\* after the second hyphen of a calendar or quarter date and 1 for a week
\* date) and the actual run has a different length c, ParseDate fails with an
\* UnexpectedTokenError whose Token describes the true length c and whose
\* Expected describes k; a run of 1, 4 or more digits right after the year's
\* hyphen reports its true length with Expected "like -Q4-85 or -W52-1 or
\* -359". The inputs are those that pass the check of 8 characters.
C21_RunLengthReported ==
    YearRead =>
        LET u     == Unsign(b)
            c(p)  == RunFrom(u, p)
            is(p, ch) == ByteAt(u, p) = ch
        IN /\ ((is(5, ChQ) \/ is(5, ChW)) /\ c(6) # 3) => RunError(c(6), RunLengthText(3))
           /\ (is(5, ChMinus) /\ is(6, ChQ) /\ c(7) # 1) => RunError(c(7), RunLengthText(1))
           /\ (is(5, ChMinus) /\ is(6, ChW) /\ c(7) # 2) => RunError(c(7), RunLengthText(2))
           /\ (is(5, ChMinus) /\ c(6) = 2 /\ is(8, ChMinus) /\ c(9) # 2)
                 => RunError(c(9), RunLengthText(2))
           /\ (is(5, ChMinus) /\ is(6, ChQ) /\ c(7) = 1 /\ is(8, ChMinus) /\ c(9) # 2)
                 => RunError(c(9), RunLengthText(2))
           /\ (is(5, ChMinus) /\ is(6, ChW) /\ c(7) = 2 /\ is(9, ChMinus) /\ c(10) # 1)
                 => RunError(c(10), RunLengthText(1))
           /\ (is(5, ChMinus) /\ (c(6) = 1 \/ c(6) >= 4)) => RunError(c(6), StrLike)


\* C22: statelessness: after any sequence of ParseDate, Validate, IsValid,
\* Date and String calls, in any order and with any arguments, a call with a
\* given argument returns the same result as it would as the first call; the
\* package-level tables daysInMonthList and daysInQuarterList are never
\* written.
C22_Stateless ==
    /\ daysInMonthList = <<0, 31, 28, 31, 30, 31, 30, 31, 31, 30, 31, 30, 31>>
    /\ daysInQuarterList = <<0, 90, 91, 92, 92>>
    /\ (pc = "done" /\ first # NoFirst /\ first.op = op /\ first.b = b /\ first.recv = recv)
          => ret = first.ret

\* the call that was made first has been made again
C22_Witness ==
    /\ pc = "done" /\ first # NoFirst
    /\ first.op = "IsValid" /\ first.recv = Date(2013, 2, 29)
    /\ op = "IsValid" /\ recv = Date(2013, 2, 29) /\ ret = first.ret


\* a 64-bit value below 10^9 in magnitude as an integer
Int64Small(x) == (IF x.neg THEN 0 - 1 ELSE 1) * (x.mag[1] + x.mag[2] * 1000000)

IsSmall(x) == x.mag[3] = 0 /\ x.mag[4] = 0 /\ x.mag[2] < 1000

\* the normalized year is at least 1 and congruent to the year modulo 400
NormOK(year) ==
    LET n == weeksInYearNormInt64(year)
    IN /\ ~Int64Less(n, Int64Of(1))
       /\ (Int64Mod(n, 400) - Int64Mod(year, 400)) % 400 = 0

WideDone == op = "weeksInYearInt64" /\ pc = "done"

\* C23 as stated: weeksInYear is 400-year periodic over all integers: for
\* every year y (of the 64-bit int, with y + 400 representable), including
\* y < 1 where truncating division is used in the normalization, the
\* normalized year is >= 1 and congruent to y modulo 400, and
\* weeksInYear(y) = weeksInYear(y + 400).
C23_PeriodicEverywhere ==
    (WideDone /\ ~Int64Less(MaxInt64, Int64Sum(args[1], Int64Of(400)))) =>
        /\ NormOK(args[1])
        /\ ret.num = weeksInYearInt64(Int64Sum(args[1], Int64Of(400)))

\* C23, amended: the same for every year y with y + 400 <= 7423237051794588176,
\* down to -2^63; from 7423237051794588177 on the sum of the formula exceeds
\* 2^63 - 1, wraps to a negative number, and weeksInYear returns 52 for every
\* year. On small years the 64-bit computation and the one on unbounded
\* integers agree.
C23_PeriodicBelowOverflow ==
    /\ WideDone =>
          /\ NormOK(args[1])
          /\ ~Int64Less(OverflowEdge, Int64Sum(args[1], Int64Of(400)))
                => ret.num = weeksInYearInt64(Int64Sum(args[1], Int64Of(400)))
          /\ Int64Less(OverflowEdge, args[1]) => ret.num = 52
          /\ IsSmall(args[1]) => ret.num = weeksInYear(Int64Small(args[1]))
    /\ (op = "weeksInYear" /\ pc = "done") =>
          /\ weeksInYearNorm(args[1]) >= 1
          /\ (weeksInYearNorm(args[1]) - args[1]) % 400 = 0
          /\ ret.num = weeksInYear(args[1] + 400)

\* a year of 53 weeks more than 10^18 years before year 1
C23_Witness ==
    /\ WideDone /\ args[1].neg /\ args[1].mag[4] > 0
    /\ weeksInYearNormInt64(args[1]) # Int64Add(args[1], Int64Of(400))
    /\ ret.num = 53 /\ weeksInYearInt64(Int64Sum(args[1], Int64Of(400))) = 53


\* the calendar day after d
NextDay(d) ==
    IF d.Day < StdMonthDays(d.Year, d.Month) THEN Date(d.Year, d.Month, d.Day + 1)
    ELSE IF d.Month < 12 THEN Date(d.Year, d.Month + 1, 1)
    ELSE Date(d.Year + 1, 1, 1)

LastDayConverted ==
    /\ op = "Date" /\ pc = "done" /\ recv.type = "WeekDate"
    /\ recv.Year \in MinYear..(MaxYear - 1)
    /\ recv.Week = weeksInYear(recv.Year) /\ recv.Day = 7

\* C24: week-year continuity: for every year y in 0..9998 the calendar date
\* of WeekDate{y, weeksInYear(y), 7} is the day immediately before the
\* calendar date of WeekDate{y + 1, 1, 1}: the 52/53 count of weeksInYear
\* agrees with the first-Thursday anchor of WeekDate.Date(), with no gap and
\* no overlap between consecutive week-numbering years.
C24_WeekYearContinuity ==
    LastDayConverted =>
        /\ IsCalendarDate(ret.val)
        /\ NextDay(ret.val) = WeekDateDate(WeekDate(recv.Year + 1, 1, 1))

\* a year of 53 weeks whose last day is in January of the next year
C24_Witness ==
    /\ LastDayConverted /\ recv.Week = 53
    /\ ret.val.Year = recv.Year + 1 /\ ret.val.Month = 1


\* C25: memory safety of the scan: for every byte sequence of any length
\* (empty, a lone '+', truncated forms, arbitrary bytes) parseDate never
\* indexes the input outside its bounds, and every parseNumber(b, start,
\* width) call it makes reads only positions start .. start+width-1 that a
\* preceding countDigits established to be ASCII digits.
C25_ScanInBounds ==
    ParseDone =>
        LET u == Unsign(b)
        IN /\ \A i \in reads.sign : i < Len(b)
           /\ \A i \in reads.index : 0 <= i /\ i < Len(u)
           /\ \A k \in reads.from : 0 <= k /\ k <= Len(u)
           /\ \A nb \in reads.numbers :
                 /\ \A q \in nb[1]..(nb[1] + nb[2] - 1) : q < Len(u) /\ IsDigit(u[q + 1])
                 /\ \E r \in reads.runs : r[1] <= nb[1] /\ nb[1] + nb[2] <= r[1] + r[2]

\* the longest path: an extended week date read to its last digit
C25_Witness ==
    /\ ParseDone /\ HasSign(b) /\ Len(b) = 11
    /\ reads.index = {4, 5, 8}
    /\ reads.numbers = {<<0, 4>>, <<6, 2>>, <<9, 1>>}


\* C26: table lookups stay in bounds: for arbitrary integer field values,
\* valid or not, no public operation (ParseDate, Validate, IsValid, Date on
\* any of the four types) calls daysInMonth with a month outside 1..12 or
\* daysInQuarter with a quarter outside 1..4, so that daysInMonthList and
\* daysInQuarterList are never indexed out of range: no call ends in the
\* index-out-of-range panic.
C26_LookupsInBounds ==
    (pc = "done" /\ op \in {"ParseDate", "Validate", "IsValid", "Date"}) =>
        /\ ret.val # Panic
        /\ (op = "Date" /\ recv.type = "QuarterDate") =>
              \A i \in 1..(recv.Quarter - 1) : i \in 1..4


SyntaxError == ParseDone /\ ret.err.kind = "UnexpectedTokenError"

\* C27: an UnexpectedTokenError with Expected "date format" and an empty
\* AfterToken is returned only when the initial digit run has a length other
\* than 4, 7 or 8; every failure that occurs after a four-digit year has been
\* recognised (a '-' followed by a character that is neither a digit, 'Q' nor
\* 'W', an extended Q/W form shorter than 10 characters) reports a non-empty
\* AfterToken.
C27_DateFormatOnlyForRunLength ==
    SyntaxError =>
        /\ (ret.err.Expected = StrDateFormat /\ ret.err.AfterToken = <<>>)
              => LeadRun(Unsign(b)) \notin {4, 7, 8}
        /\ LeadRun(Unsign(b)) = 4 => ret.err.AfterToken # <<>>


\* C28: ParseDate never returns a DateLikeRangeError whose Element is "year":
\* the year is always taken from exactly four ASCII digits, so the year of
\* every value the parser hands to Validate lies in 0..9999.
C28_NoYearRangeError ==
    ParseDone =>
        /\ ret.err.kind = "DateLikeRangeError" =>
              /\ ret.err.Element # "year"
              /\ ret.err.Year \in 0..9999
              /\ ret.err.Year = Decimal(Unsign(b), 1, 4)
        /\ ret.err = NilErr =>
              /\ ret.val.Year \in 0..9999
              /\ ret.val.Year = Decimal(Unsign(b), 1, 4)

\* a range error for a field of the largest year
C28_Witness ==
    /\ ParseDone /\ ret.err.kind = "DateLikeRangeError"
    /\ ret.err.Year = 9999 /\ ret.err.Element = "week"


\* the Thursday found lies on January 1..7 of the year, after at most 6 steps
AnchorFound ==
    /\ args[2] <= 6
    /\ args[1] = TimeDate(recv.Year, 1, 1) + args[2]
    /\ pc = "done" =>
          /\ Weekday(args[1]) = 4
          /\ args[1] < TimeDate(recv.Year, 1, 8)
          /\ ret.val = WeekDateDate(recv)

\* C29: termination of the anchor search: for every year the loop of
\* WeekDate.Date() that advances from January 1 to the first Thursday
\* terminates after at most 6 one-day steps, and the Thursday found lies on
\* January 1..7 of that year.
C29_AnchorSearchTerminates ==
    /\ [](pc \in {"loop", "done"} => AnchorFound)
    /\ <>(pc = "done")

\* the longest search: a year that starts on a Friday
C29_Witness ==
    /\ pc = "done" /\ args[2] = 6
    /\ Weekday(TimeDate(recv.Year, 1, 1)) = 5


Counted == op = "countDigits" /\ pc = "done"

\* C30: countDigits(b, i) returns the length of the maximal run of bytes
\* '0'..'9' starting at index i, stopping at the first other byte or at the
\* end of b (0 when i >= len(b)); the unsigned 8-bit subtraction wraps so that
\* bytes below '0' (such as '+', '-', '/') as well as bytes above '9' are
\* treated as non-digits.
C30_CountDigits ==
    Counted =>
        LET i == args[1]
            n == ret.num
        IN /\ n = RunFrom(b, i + 1)
           /\ i >= Len(b) => n = 0
           /\ i + n <= Len(b) \/ n = 0
           /\ \A q \in (i + 1)..(i + n) : b[q] \in 48..57
           /\ (i + n < Len(b)) => b[i + n + 1] \notin 48..57

\* a run that ends at a byte below '0'
C30_Witness ==
    /\ Counted /\ ret.num = 1 /\ args[1] = 1 /\ Len(b) = 3
    /\ b[3] < 48

=============================================================================
